---- MODULE Spec2Model ----
(***************************************************************************)
(* Model of the two moderation pipelines of the Bluesky labeler:           *)
(*   - PolicyProposalLabeler (submission/policy_proposal_labeler.py):      *)
(*     fetch posts by URI batch or keyword search, classify each post and  *)
(*     dispatch the category to label / support message / review flag.     *)
(*   - AutomatedLabeler (bluesky-assign3/pylabel/automated_labeler.py):    *)
(*     moderate_post builds a label set from T&S words and domains, news   *)
(*     domains and perceptual-hash matches of the post's images.           *)
(* Text is a sequence of one-character strings; a hash distance is kept in *)
(* hundredths (THRESH = 30 stands for 0.3).                                *)
(***************************************************************************)
EXTENDS Integers, Sequences, FiniteSets, TLC

VARIABLES
    \* ---- PolicyProposalLabeler.fetch_and_label_posts ----
    uris,            \* the argument of fetch_and_label_posts
    catOf,           \* what the classifier answers for each post
    kwOf,            \* the keyword searches that return each post
    dedup,           \* whether get_posts drops repeated URIs of one request
    pc,              \* "fetch", "process", "done", "raised"
    i,               \* batch offset (URI mode) or number of keywords searched
    posts,           \* posts of the current response still to process
    labeled_posts,
    saved_posts,
    support_calls,   \* arguments of the send_support_message calls so far
    flag_calls,      \* arguments of the flag_post calls so far
    get_posts_calls, \* the 'uris' lists passed to get_posts so far
    search_calls,    \* the queries passed to search_posts so far
    returned,        \* every response.posts so far, concatenated
    \* ---- AutomatedLabeler ----
    t_and_s_words,
    t_and_s_domains,
    news_domains,
    dog_hashes,
    active,          \* the moderate_post calls in progress
    postText,        \* text of the post each call is given
    postImages,      \* images of the post each call is given
    fetchOk,         \* whether post_from_url succeeds for the call
    mpc,             \* position of each call
    post_content,
    image_urls,
    labels,
    idx,             \* index of the image the for loop is at
    response,        \* body downloaded by requests.get
    image_hash,
    is_dog,          \* value returned by the last is_dog_image call
    temp_image       \* content of the file temp_image.jpg

labelerVars == <<uris, catOf, kwOf, dedup, pc, i, posts, labeled_posts, saved_posts,
                 support_calls, flag_calls, get_posts_calls, search_calls, returned>>
moderatorVars == <<t_and_s_words, t_and_s_domains, news_domains, dog_hashes, active,
                   postText, postImages, fetchOk, mpc, post_content, image_urls,
                   labels, idx, response, image_hash, is_dog, temp_image>>
vars == <<labelerVars, moderatorVars>>

----------------------------------------------------------------------------
(* Bounds *)
MaxUris == 26
MaxLen == 2
MaxImages == 2
MaxRefs == 2

----------------------------------------------------------------------------
(* Helpers *)
Min(a, b) == IF a < b THEN a ELSE b

Range(s) == {s[k] : k \in 1..Len(s)}

SeqsUpTo(S, n) == UNION {[1..k -> S] : k \in 0..n}

Count(s, x) == Cardinality({k \in 1..Len(s) : s[k] = x})

RECURSIVE Concat(_)
Concat(ss) == IF ss = <<>> THEN <<>> ELSE Head(ss) \o Concat(Tail(ss))

\* str.lower() on one character and on a text
LowerChar(c) == CASE c = "A" -> "a" [] c = "B" -> "b" [] OTHER -> c

Lower(t) == [k \in 1..Len(t) |-> LowerChar(t[k])]

\* Python's `w in t` on strings
IsSubstring(w, t) ==
    \E k \in 0..(Len(t) - Len(w)) : SubSeq(t, k + 1, k + Len(w)) = w

----------------------------------------------------------------------------
(* PolicyProposalLabeler *)

Posts == {"at://p1", "at://p2"}

PostOrder == <<"at://p1", "at://p2">>

Author(p) == IF p = "at://p1" THEN "alice" ELSE "bob"

Timestamp(p) == IF p = "at://p1" THEN "2025-01-01" ELSE "2025-01-02"

Text(p) == IF p = "at://p1" THEN <<"A", "b">> ELSE <<"b", "B">>

keywords == <<"anxiety", "depression", "stress", "therapy", "mental health",
              "cancer", "diabetes", "chronic pain", "illness", "diagnosis",
              "medication", "treatment", "symptoms", "doctor", "hospital">>

BatchSize == 25

SearchLimit == 8

ApplyLabelCategories == {"Personal Health Disclosure", "Health Advice", "Medical News",
                         "Satire/Parody", "Potential Misinformation", "Medical Question"}

Categories == ApplyLabelCategories \cup
              {"Risk of Harm to Self", "Risk of Harm to Others", "Other"}

\* what the model may answer: a category of the prompt, or something else
ClassifierOutputs == Categories \cup {"Spam"}

\* response.choices[0].message.content.strip()
Strip(raw) == raw.text

\* a slice one URI too long: uris[i:i+26]
BatchOfOverlap(us, k) == SubSeq(us, k + 1, Min(k + BatchSize + 1, Len(us)))

\* batch_uris = uris[i:i+25]
BatchOf(us, k) == SubSeq(us, k + 1, Min(k + BatchSize, Len(us)))

RECURSIVE Dedup(_)
Dedup(s) ==
    IF s = <<>> THEN <<>>
    ELSE LET front == Dedup(SubSeq(s, 1, Len(s) - 1))
             last == s[Len(s)]
         IN IF last \in Range(front) THEN front ELSE Append(front, last)

\* response.posts of get_posts({'uris': batch})
GetPostsResponse(batch) == IF dedup THEN Dedup(batch) ELSE batch

\* response.posts of search_posts(q=keyword, limit=8, sort='latest')
SearchResponse(k) ==
    LET hits == SelectSeq(PostOrder, LAMBDA p : k \in kwOf[p])
    IN SubSeq(hits, 1, Min(SearchLimit, Len(hits)))

\* a dispatch whose two risk branches do not clear true_label
DispatchKeepsLabel(label) ==
    [true_label |-> IF label = "Other" THEN "" ELSE label,
     action_taken |-> CASE label = "Risk of Harm to Self" -> "Message sent"
                        [] label = "Risk of Harm to Others" -> "Manual review"
                        [] OTHER -> "",
     support |-> label = "Risk of Harm to Self",
     flag |-> label = "Risk of Harm to Others"]

\* a dispatch that also sends the support message for Risk of Harm to Others
DispatchBothCalls(label) ==
    [true_label |-> IF label \in {"Other", "Risk of Harm to Self",
                                  "Risk of Harm to Others"} THEN "" ELSE label,
     action_taken |-> CASE label = "Risk of Harm to Self" -> "Message sent"
                        [] label = "Risk of Harm to Others" -> "Manual review"
                        [] OTHER -> "",
     support |-> label \in {"Risk of Harm to Self", "Risk of Harm to Others"},
     flag |-> label = "Risk of Harm to Others"]

\* a dispatch that never sets action_taken
DispatchNoAction(label) ==
    [true_label |-> IF label \in {"Other", "Risk of Harm to Self",
                                  "Risk of Harm to Others"} THEN "" ELSE label,
     action_taken |-> "",
     support |-> label = "Risk of Harm to Self",
     flag |-> label = "Risk of Harm to Others"]

\* the chain of `if label == ...` of _process_and_label_post: the final
\* true_label and action_taken, and whether send_support_message and flag_post
\* are called
Dispatch(label) ==
    LET t0 == label
        a0 == ""
        t1 == IF label = "Other" THEN "" ELSE t0
        self == label = "Risk of Harm to Self"
        t2 == IF self THEN "" ELSE t1
        a2 == IF self THEN "Message sent" ELSE a0
        others == label = "Risk of Harm to Others"
        t3 == IF others THEN "" ELSE t2
        a3 == IF others THEN "Manual review" ELSE a2
    IN [true_label |-> t3, action_taken |-> a3, support |-> self, flag |-> others]

DecisionRecord(p, d) ==
    [uri |-> p, author |-> Author(p), timestamp |-> Timestamp(p),
     content |-> Lower(Text(p)), action_taken |-> d.action_taken,
     label |-> d.true_label]

\* the lists of URIs the runs are given: none (keyword search), or 1..MaxUris
\* URIs that repeat one post or alternate two
UriInputs ==
    {<<>>} \cup
    {[k \in 1..n |-> IF k % 2 = 1 THEN a ELSE b] :
        n \in 1..MaxUris, a \in Posts, b \in Posts}

KeywordHits == {{}, {1}, {1, 15}}

NoFile == [kind |-> "absent", hash |-> 0]

ModeratorIdle ==
    /\ t_and_s_words = {}
    /\ t_and_s_domains = {}
    /\ news_domains = {}
    /\ dog_hashes = <<>>
    /\ active = {}
    /\ postText = <<>>
    /\ postImages = <<>>
    /\ fetchOk = <<>>
    /\ mpc = <<>>
    /\ post_content = <<>>
    /\ image_urls = <<>>
    /\ labels = <<>>
    /\ idx = <<>>
    /\ response = <<>>
    /\ image_hash = <<>>
    /\ is_dog = <<>>
    /\ temp_image = NoFile

InitLabeler ==
    /\ uris \in UriInputs
    /\ catOf \in [Posts -> ClassifierOutputs]
    /\ kwOf \in [Posts -> KeywordHits]
    /\ dedup \in BOOLEAN
    /\ (uris = <<>> => dedup = FALSE)
    /\ (uris # <<>> => kwOf = [p \in Posts |-> {}])
    /\ pc = "fetch"
    /\ i = 0
    /\ posts = <<>>
    /\ labeled_posts = <<>>
    /\ saved_posts = <<>>
    /\ support_calls = <<>>
    /\ flag_calls = <<>>
    /\ get_posts_calls = <<>>
    /\ search_calls = <<>>
    /\ returned = <<>>
    /\ ModeratorIdle

AfterFetch(ps) == IF ps = <<>> THEN "fetch" ELSE "process"

\* one iteration of `for i in range(0, len(uris), 25)` up to response.posts
GetPosts ==
    /\ pc = "fetch"
    /\ uris # <<>>
    /\ i < Len(uris)
    /\ LET batch_uris == BatchOf(uris, i)
           ps == GetPostsResponse(batch_uris)
       IN /\ get_posts_calls' = Append(get_posts_calls, batch_uris)
          /\ posts' = ps
          /\ returned' = returned \o ps
          /\ pc' = AfterFetch(ps)
    /\ i' = i + BatchSize
    /\ UNCHANGED <<uris, catOf, kwOf, dedup, labeled_posts, saved_posts,
                   support_calls, flag_calls, search_calls>>
    /\ UNCHANGED moderatorVars

\* one iteration of `for keyword in self.keywords` up to response.posts
SearchPosts ==
    /\ pc = "fetch"
    /\ uris = <<>>
    /\ i < Len(keywords)
    /\ LET ps == SearchResponse(i + 1)
       IN /\ search_calls' = Append(search_calls, keywords[i + 1])
          /\ posts' = ps
          /\ returned' = returned \o ps
          /\ pc' = AfterFetch(ps)
    /\ i' = i + 1
    /\ UNCHANGED <<uris, catOf, kwOf, dedup, labeled_posts, saved_posts,
                   support_calls, flag_calls, get_posts_calls>>
    /\ UNCHANGED moderatorVars

\* _process_and_label_post(post, labeled_posts, saved_posts), classify_post
\* having returned
ProcessPost ==
    /\ pc = "process"
    /\ posts # <<>>
    /\ \E padded \in BOOLEAN :
        LET post == Head(posts)
            label == Strip([text |-> catOf[post], padded |-> padded])
            d == Dispatch(label)
        IN /\ support_calls' = IF d.support THEN Append(support_calls, Author(post))
                               ELSE support_calls
           /\ flag_calls' = IF d.flag THEN Append(flag_calls, post) ELSE flag_calls
           /\ labeled_posts' = Append(labeled_posts, <<post, <<d.true_label>>>>)
           /\ saved_posts' = Append(saved_posts, DecisionRecord(post, d))
    /\ posts' = Tail(posts)
    /\ pc' = AfterFetch(Tail(posts))
    /\ UNCHANGED <<uris, catOf, kwOf, dedup, i, get_posts_calls, search_calls,
                   returned>>
    /\ UNCHANGED moderatorVars

\* classify_post raises (API error, timeout, response without choices): nothing
\* between the call and the caller of fetch_and_label_posts catches it
ClassifierRaises ==
    /\ pc = "process"
    /\ posts # <<>>
    /\ pc' = "raised"
    /\ UNCHANGED <<uris, catOf, kwOf, dedup, i, posts, labeled_posts, saved_posts,
                   support_calls, flag_calls, get_posts_calls, search_calls,
                   returned>>
    /\ UNCHANGED moderatorVars

\* return labeled_posts, saved_posts
Return ==
    /\ pc = "fetch"
    /\ IF uris # <<>> THEN i >= Len(uris) ELSE i >= Len(keywords)
    /\ pc' = "done"
    /\ UNCHANGED <<uris, catOf, kwOf, dedup, i, posts, labeled_posts, saved_posts,
                   support_calls, flag_calls, get_posts_calls, search_calls,
                   returned>>
    /\ UNCHANGED moderatorVars

NextLabeler ==
    \/ GetPosts
    \/ SearchPosts
    \/ ProcessPost
    \/ ClassifierRaises
    \/ Return

Spec == InitLabeler /\ [][NextLabeler]_vars

----------------------------------------------------------------------------
(* Properties of PolicyProposalLabeler, checked under Spec *)

Processed == 1..Len(labeled_posts)

UriAt(k) == labeled_posts[k][1]

LabelAt(k) == labeled_posts[k][2][1]

NonLabelCategories == {"Risk of Harm to Self", "Risk of Harm to Others", "Other"}

\* C1: processing one post whose category is in the enumeration makes at most
\* one of {non-empty label, support message sent, flag sent} happen (the fourth
\* outcome being that none does), and the label is non-empty exactly for the six
\* ApplyLabel categories.
C1_ExactlyOneOutcome ==
    [][Len(labeled_posts') = Len(labeled_posts) + 1
       /\ catOf[Head(posts)] \in Categories
       => LET labelled == labeled_posts'[Len(labeled_posts')][2][1] # ""
              supported == Len(support_calls') > Len(support_calls)
              flagged == Len(flag_calls') > Len(flag_calls)
          IN /\ ~(labelled /\ supported)
             /\ ~(labelled /\ flagged)
             /\ ~(supported /\ flagged)
             /\ Len(support_calls') <= Len(support_calls) + 1
             /\ Len(flag_calls') <= Len(flag_calls) + 1
             /\ labelled <=> catOf[Head(posts)] \in ApplyLabelCategories
             /\ labeled_posts'[Len(labeled_posts')][1] = Head(posts)]_vars

\* a run that has processed a labelled post, a supported post and has ended
C1_Witness ==
    /\ pc = "done"
    /\ \E k \in Processed : LabelAt(k) = "Medical News"
    /\ \E k \in Processed : LabelAt(k) = "" /\ catOf[UriAt(k)] = "Risk of Harm to Self"
    /\ Len(support_calls) = 1
    /\ flag_calls = <<>>

\* C2: a classifier answer outside the enumeration is handled as Other/NoOp: no
\* support message, no flag, and the empty label in labeled_posts and in the
\* decision record.
C2_UnrecognizedIsNoOp ==
    \A k \in Processed :
        catOf[UriAt(k)] \notin Categories
        => /\ LabelAt(k) = ""
           /\ saved_posts[k].label = ""
           /\ saved_posts[k].action_taken = ""

\* C3 as stated: when the run has returned, every distinct post processed with
\* category Risk of Harm to Self had send_support_message invoked exactly once
\* (with its author), and every distinct post with Risk of Harm to Others had
\* flag_post invoked exactly once, however often the post was returned.
C3_OncePerDistinctPost ==
    pc = "done"
    => \A p \in {UriAt(k) : k \in Processed} :
        /\ catOf[p] = "Risk of Harm to Self" => Count(support_calls, Author(p)) = 1
        /\ catOf[p] = "Risk of Harm to Others" => Count(flag_calls, p) = 1

Occurrences(p) == Cardinality({k \in Processed : UriAt(k) = p})

\* C3 amended: at every point of a run, send_support_message has been invoked
\* once for each processed occurrence of a Risk of Harm to Self post and
\* flag_post once for each processed occurrence of a Risk of Harm to Others
\* post, and never for a post of another category; the processed occurrences
\* are the posts of the responses, in order, without the ones still pending.
C3_OncePerOccurrence ==
    /\ \A p \in Posts :
        /\ Count(support_calls, Author(p)) =
              IF catOf[p] = "Risk of Harm to Self" THEN Occurrences(p) ELSE 0
        /\ Count(flag_calls, p) =
              IF catOf[p] = "Risk of Harm to Others" THEN Occurrences(p) ELSE 0
    /\ [k \in Processed |-> UriAt(k)] \o posts = returned

\* a post returned by two keyword searches got two support messages
C3_Witness ==
    /\ pc = "done"
    /\ uris = <<>>
    /\ \E p \in Posts :
        /\ catOf[p] = "Risk of Harm to Self"
        /\ Occurrences(p) = 2
        /\ Count(support_calls, Author(p)) = 2

\* C7: a failure of the classifier call for one post never leaves the batch:
\* the run does not end by an exception.
C7_NoErrorLeavesBatch == pc # "raised"

RecordFields == {"uri", "author", "timestamp", "content", "action_taken", "label"}

\* the fields of a decision record that hold a string (content is the lowered
\* text, which no category name equals: every category has a capital letter)
HoldsCategory(rec, c) ==
    \/ rec.uri = c
    \/ rec.author = c
    \/ rec.timestamp = c
    \/ rec.action_taken = c
    \/ rec.label = c

\* C9 as stated: for a post of a category that is not labelled, the decision
\* record has the empty label and keeps the category in another field.
C9_RecordKeepsCategory ==
    \A k \in Processed :
        catOf[UriAt(k)] \in NonLabelCategories
        => /\ saved_posts[k].label = ""
           /\ HoldsCategory(saved_posts[k], catOf[UriAt(k)])

ActionName(c) ==
    CASE c = "Risk of Harm to Self" -> "Message sent"
      [] c = "Risk of Harm to Others" -> "Manual review"
      [] OTHER -> ""

\* C9 amended: for a post of a category that is not labelled, the decision
\* record has the empty label, has exactly the fields uri, author, timestamp,
\* content, action_taken and label, none of which holds the category, and
\* records the action instead: "Message sent" for Risk of Harm to Self,
\* "Manual review" for Risk of Harm to Others, "" for Other.
C9_RecordKeepsAction ==
    \A k \in Processed :
        catOf[UriAt(k)] \in NonLabelCategories
        => /\ saved_posts[k].label = ""
           /\ DOMAIN saved_posts[k] = RecordFields
           /\ saved_posts[k].uri = UriAt(k)
           /\ saved_posts[k].action_taken = ActionName(catOf[UriAt(k)])
           /\ ~HoldsCategory(saved_posts[k], catOf[UriAt(k)])

C9_Witness ==
    /\ pc = "done"
    /\ \E k \in Processed :
        /\ catOf[UriAt(k)] = "Risk of Harm to Others"
        /\ saved_posts[k].action_taken = "Manual review"
        /\ saved_posts[k].label = ""
    /\ \E k \in Processed :
        /\ catOf[UriAt(k)] = "Other"
        /\ saved_posts[k].action_taken = ""

\* C10: given a non-empty list of URIs, the run makes no keyword search and
\* requests the URIs in consecutive non-empty batches of at most 25 whose
\* concatenation is the part of the list consumed so far (the whole list when
\* the run returns); every post returned is processed once, in order, adding one
\* entry to labeled_posts and one to saved_posts (all of them when the run
\* returns).
C10_UriBatches ==
    uris # <<>>
    => /\ search_calls = <<>>
       /\ \A b \in 1..Len(get_posts_calls) :
            /\ get_posts_calls[b] # <<>>
            /\ Len(get_posts_calls[b]) <= 25
       /\ Concat(get_posts_calls) = SubSeq(uris, 1, Min(i, Len(uris)))
       /\ Len(saved_posts) = Len(labeled_posts)
       /\ \A k \in Processed : saved_posts[k].uri = UriAt(k)
       /\ [k \in Processed |-> UriAt(k)] \o posts = returned
       /\ pc = "done" => /\ Concat(get_posts_calls) = uris
                         /\ Len(labeled_posts) = Len(returned)

\* a list of 26 URIs was requested as a batch of 25 and a batch of 1
C10_Witness ==
    /\ pc = "done"
    /\ Len(uris) = 26
    /\ Len(get_posts_calls) = 2
    /\ Len(get_posts_calls[1]) = 25
    /\ Len(get_posts_calls[2]) = 1
    /\ Len(labeled_posts) = 26

----------------------------------------------------------------------------
(* AutomatedLabeler *)

T_AND_S_LABEL == "t-and-s"

DOG_LABEL == "dog"

\* 0.3, in hundredths
THRESH == 30

Chars == {"a", "b", "A", "B"}

\* the rows of t-and-s-words.csv, t-and-s-domains.csv and news-domains.csv
CsvWords == {<<"a">>, <<"B">>, <<"a", "b">>}

CsvDomains == {<<"b", "A">>}

CsvNews == {<<<<"B", "b">>, "News">>, <<<<"a">>, "Wire">>}

\* pd.read_csv(file_path)['Word'].str.lower().tolist()
load_t_and_s_words(rows) == {Lower(w) : w \in rows}

\* pd.read_csv(file_path)['Domain'].str.lower().tolist()
load_t_and_s_domains(rows) == {Lower(d) : d \in rows}

\* dict(zip(df['Domain'].str.lower(), df['Source']))
load_news_domains(rows) == {<<Lower(r[1]), r[2]>> : r \in rows}

\* an image behind a URL: its bytes decode to a picture with a perceptual
\* hash, or do not decode, or the download fails
OkImage(h) == [kind |-> "ok", hash |-> h]

CorruptImage == [kind |-> "corrupt", hash |-> 0]

UnreachableImage == [kind |-> "unreachable", hash |-> 0]

\* the file between open('temp_image.jpg', 'wb') and the end of f.write
EmptyFile == [kind |-> "empty", hash |-> 0]

CandidateHashes == {30, 35, 100}

ReferenceHashes == {0, 5, 65}

ImageChoices == {OkImage(h) : h \in CandidateHashes} \cup {CorruptImage, UnreachableImage}

\* hasher.compute_distance(image_hash, dog_hash), in hundredths
compute_distance(h1, h2) == IF h1 < h2 THEN h2 - h1 ELSE h1 - h2

\* a comparison that leaves the boundary out
WithinThreshStrict(d) == d < THRESH

\* `hasher.compute_distance(image_hash, dog_hash) <= THRESH`
WithinThresh(d) == d <= THRESH

\* for dog_hash in self.dog_hashes: if ...: return True
RECURSIVE AnyDogHashMatches(_, _)
AnyDogHashMatches(h, refs) ==
    IF refs = <<>> THEN FALSE
    ELSE IF WithinThresh(compute_distance(h, Head(refs))) THEN TRUE
    ELSE AnyDogHashMatches(h, Tail(refs))

\* `any(word in post_content for word in terms)`
AnyTermIn(terms, content) == \E w \in terms : IsSubstring(w, content)

\* the labels moderate_post adds from the text (lines 60-68)
TextLabels(content) ==
    (IF AnyTermIn(t_and_s_words, content) \/ AnyTermIn(t_and_s_domains, content)
     THEN {T_AND_S_LABEL} ELSE {})
    \cup {r[2] : r \in {q \in news_domains : IsSubstring(q[1], content)}}

\* an is_dog_image without the handler: the exception leaves moderate_post
ImageErrorPropagates == "raised"

\* where is_dog_image goes when the try block raises: `except Exception`
\* prints the error and falls through to `return False`
ImageErrorPc == "checked"

LabelerIdle ==
    /\ uris = <<>>
    /\ catOf = <<>>
    /\ kwOf = <<>>
    /\ dedup = FALSE
    /\ pc = "idle"
    /\ i = 0
    /\ posts = <<>>
    /\ labeled_posts = <<>>
    /\ saved_posts = <<>>
    /\ support_calls = <<>>
    /\ flag_calls = <<>>
    /\ get_posts_calls = <<>>
    /\ search_calls = <<>>
    /\ returned = <<>>

\* the state of the calls before their first step
CallsAtStart ==
    /\ mpc = [p \in active |-> "start"]
    /\ post_content = [p \in active |-> <<>>]
    /\ image_urls = [p \in active |-> <<>>]
    /\ labels = [p \in active |-> {}]
    /\ idx = [p \in active |-> 0]
    /\ response = [p \in active |-> CorruptImage]
    /\ image_hash = [p \in active |-> 0]
    /\ is_dog = [p \in active |-> FALSE]
    /\ temp_image = NoFile
    /\ LabelerIdle

\* one call; every text up to MaxLen, every T&S word list, few images
InitText ==
    /\ active = {1}
    /\ t_and_s_words \in {load_t_and_s_words(rows) : rows \in SUBSET CsvWords}
    /\ t_and_s_domains \in {load_t_and_s_domains(rows) : rows \in SUBSET CsvDomains}
    /\ news_domains \in {load_news_domains(rows) : rows \in SUBSET CsvNews}
    /\ dog_hashes = <<0>>
    /\ postText \in [active -> SeqsUpTo(Chars, MaxLen)]
    /\ postImages \in [active -> {<<>>, <<UnreachableImage, OkImage(30)>>,
                                  <<CorruptImage, OkImage(100)>>}]
    /\ fetchOk \in [active -> BOOLEAN]
    /\ CallsAtStart

\* one call; every image list up to MaxImages, every reference list up to
\* MaxRefs, few texts
InitImage ==
    /\ active = {1}
    /\ t_and_s_words = load_t_and_s_words({<<"a">>})
    /\ t_and_s_domains = {}
    /\ news_domains = load_news_domains({<<<<"B", "b">>, "News">>})
    /\ dog_hashes \in SeqsUpTo(ReferenceHashes, MaxRefs)
    /\ postText \in [active -> {<<"a", "b">>, <<"b", "b">>}]
    /\ postImages \in [active -> SeqsUpTo(ImageChoices, MaxImages)]
    /\ fetchOk \in [active -> BOOLEAN]
    /\ CallsAtStart

ConcurrentImages == {<<OkImage(30)>>, <<OkImage(100)>>, <<CorruptImage, OkImage(30)>>,
                     <<UnreachableImage>>}

\* two calls at the same time, on posts with images
InitConcurrent ==
    /\ active = {1, 2}
    /\ t_and_s_words = load_t_and_s_words({<<"a">>})
    /\ t_and_s_domains = {}
    /\ news_domains = {}
    /\ dog_hashes = <<0>>
    /\ postText = [p \in active |-> IF p = 1 THEN <<"a">> ELSE <<"b">>]
    /\ postImages \in [active -> ConcurrentImages]
    /\ fetchOk \in [active -> BOOLEAN]
    /\ CallsAtStart

referenceVars == <<t_and_s_words, t_and_s_domains, news_domains, dog_hashes, active,
                   postText, postImages, fetchOk>>

\* post_content, image_urls = self.fetch_post_content(url); labels = set()
FetchPostContent(p) ==
    /\ mpc[p] = "start"
    /\ post_content' = [post_content EXCEPT ![p] = IF fetchOk[p] THEN postText[p] ELSE <<>>]
    /\ image_urls' = [image_urls EXCEPT ![p] = IF fetchOk[p] THEN postImages[p] ELSE <<>>]
    /\ labels' = [labels EXCEPT ![p] = {}]
    /\ mpc' = [mpc EXCEPT ![p] = "text"]
    /\ UNCHANGED <<idx, response, image_hash, is_dog, temp_image>>
    /\ UNCHANGED referenceVars
    /\ UNCHANGED labelerVars

\* the T&S and news checks, up to the start of the image loop
CheckText(p) ==
    /\ mpc[p] = "text"
    /\ labels' = [labels EXCEPT ![p] = labels[p] \cup TextLabels(post_content[p])]
    /\ idx' = [idx EXCEPT ![p] = 1]
    /\ mpc' = [mpc EXCEPT ![p] = "loop"]
    /\ UNCHANGED <<post_content, image_urls, response, image_hash, is_dog, temp_image>>
    /\ UNCHANGED referenceVars
    /\ UNCHANGED labelerVars

\* is_dog_image: requests.get(image_url); response.raise_for_status()
RequestsGet(p) ==
    /\ mpc[p] = "loop"
    /\ idx[p] <= Len(image_urls[p])
    /\ image_urls[p][idx[p]].kind # "unreachable"
    /\ response' = [response EXCEPT ![p] = image_urls[p][idx[p]]]
    /\ mpc' = [mpc EXCEPT ![p] = "open"]
    /\ UNCHANGED <<post_content, image_urls, labels, idx, image_hash, is_dog, temp_image>>
    /\ UNCHANGED referenceVars
    /\ UNCHANGED labelerVars

\* is_dog_image: requests.get or raise_for_status raises
RequestsGetFails(p) ==
    /\ mpc[p] = "loop"
    /\ idx[p] <= Len(image_urls[p])
    /\ image_urls[p][idx[p]].kind = "unreachable"
    /\ is_dog' = [is_dog EXCEPT ![p] = FALSE]
    /\ mpc' = [mpc EXCEPT ![p] = ImageErrorPc]
    /\ UNCHANGED <<post_content, image_urls, labels, idx, response, image_hash, temp_image>>
    /\ UNCHANGED referenceVars
    /\ UNCHANGED labelerVars

\* is_dog_image: open('temp_image.jpg', 'wb') truncates the file
OpenTempImage(p) ==
    /\ mpc[p] = "open"
    /\ temp_image' = EmptyFile
    /\ mpc' = [mpc EXCEPT ![p] = "write"]
    /\ UNCHANGED <<post_content, image_urls, labels, idx, response, image_hash, is_dog>>
    /\ UNCHANGED referenceVars
    /\ UNCHANGED labelerVars

\* is_dog_image: f.write(response.content), and the file is closed
WriteTempImage(p) ==
    /\ mpc[p] = "write"
    /\ temp_image' = response[p]
    /\ mpc' = [mpc EXCEPT ![p] = "hash"]
    /\ UNCHANGED <<post_content, image_urls, labels, idx, response, image_hash, is_dog>>
    /\ UNCHANGED referenceVars
    /\ UNCHANGED labelerVars

\* is_dog_image: image_hash = hasher.compute('temp_image.jpg')
ComputeHash(p) ==
    /\ mpc[p] = "hash"
    /\ temp_image.kind = "ok"
    /\ image_hash' = [image_hash EXCEPT ![p] = temp_image.hash]
    /\ mpc' = [mpc EXCEPT ![p] = "compare"]
    /\ UNCHANGED <<post_content, image_urls, labels, idx, response, is_dog, temp_image>>
    /\ UNCHANGED referenceVars
    /\ UNCHANGED labelerVars

\* is_dog_image: hasher.compute raises, the file holding no decodable image
ComputeHashFails(p) ==
    /\ mpc[p] = "hash"
    /\ temp_image.kind # "ok"
    /\ is_dog' = [is_dog EXCEPT ![p] = FALSE]
    /\ mpc' = [mpc EXCEPT ![p] = ImageErrorPc]
    /\ UNCHANGED <<post_content, image_urls, labels, idx, response, image_hash, temp_image>>
    /\ UNCHANGED referenceVars
    /\ UNCHANGED labelerVars

\* is_dog_image: the loop over self.dog_hashes and the return
CompareDogHashes(p) ==
    /\ mpc[p] = "compare"
    /\ is_dog' = [is_dog EXCEPT ![p] = AnyDogHashMatches(image_hash[p], dog_hashes)]
    /\ mpc' = [mpc EXCEPT ![p] = "checked"]
    /\ UNCHANGED <<post_content, image_urls, labels, idx, response, image_hash, temp_image>>
    /\ UNCHANGED referenceVars
    /\ UNCHANGED labelerVars

\* moderate_post: if self.is_dog_image(image_url): labels.add(DOG_LABEL); break
AfterIsDogImage(p) ==
    /\ mpc[p] = "checked"
    /\ IF is_dog[p]
       THEN /\ labels' = [labels EXCEPT ![p] = labels[p] \cup {DOG_LABEL}]
            /\ mpc' = [mpc EXCEPT ![p] = "return"]
            /\ idx' = idx
       ELSE /\ labels' = labels
            /\ mpc' = [mpc EXCEPT ![p] = "loop"]
            /\ idx' = [idx EXCEPT ![p] = idx[p] + 1]
    /\ UNCHANGED <<post_content, image_urls, response, image_hash, is_dog, temp_image>>
    /\ UNCHANGED referenceVars
    /\ UNCHANGED labelerVars

\* moderate_post: return list(labels), after a break or the end of the loop
ReturnLabels(p) ==
    /\ \/ mpc[p] = "return"
       \/ mpc[p] = "loop" /\ idx[p] > Len(image_urls[p])
    /\ mpc' = [mpc EXCEPT ![p] = "done"]
    /\ UNCHANGED <<post_content, image_urls, labels, idx, response, image_hash, is_dog,
                   temp_image>>
    /\ UNCHANGED referenceVars
    /\ UNCHANGED labelerVars

NextModerator ==
    \/ \E p \in active : FetchPostContent(p)
    \/ \E p \in active : CheckText(p)
    \/ \E p \in active : RequestsGet(p)
    \/ \E p \in active : RequestsGetFails(p)
    \/ \E p \in active : OpenTempImage(p)
    \/ \E p \in active : WriteTempImage(p)
    \/ \E p \in active : ComputeHash(p)
    \/ \E p \in active : ComputeHashFails(p)
    \/ \E p \in active : CompareDogHashes(p)
    \/ \E p \in active : AfterIsDogImage(p)
    \/ \E p \in active : ReturnLabels(p)

SpecText == InitText /\ [][NextModerator]_vars

SpecImage == InitImage /\ [][NextModerator]_vars

SpecConcurrent == InitConcurrent /\ [][NextModerator]_vars

----------------------------------------------------------------------------
(* Properties of AutomatedLabeler *)

\* the reference hashes within the threshold 0.3 of hash h, as the claims state it
NearReferences(h) == {k \in 1..Len(dog_hashes) : compute_distance(h, dog_hashes[k]) <= 30}

\* an image that is fetched and hashed successfully and matches a reference
MatchingImage(img) == img.kind = "ok" /\ NearReferences(img.hash) # {}

\* the labels of a call that runs alone
LabelsAlone(p) ==
    IF fetchOk[p]
    THEN TextLabels(postText[p])
         \cup (IF \E k \in 1..Len(postImages[p]) : MatchingImage(postImages[p][k])
               THEN {DOG_LABEL} ELSE {})
    ELSE {}

\* C4 (checked under SpecText): with the domain list empty, a fetched post gets
\* "t-and-s" iff some word of the T&S word list is a substring of the lowercased
\* text; with the word list empty too, "t-and-s" is never added.
C4_CaseInsensitiveWordMatch ==
    \A p \in active :
        mpc[p] = "done" /\ fetchOk[p] /\ t_and_s_domains = {}
        => /\ T_AND_S_LABEL \in labels[p]
                <=> \E w \in t_and_s_words : IsSubstring(w, Lower(postText[p]))
           /\ t_and_s_words = {} => T_AND_S_LABEL \notin labels[p]

\* C5 (checked under SpecImage): when is_dog_image returns for an image that
\* was fetched and hashed successfully, it returns true iff the distance of the
\* image's hash to at least one reference hash is <= 0.3, whatever the position
\* of that reference.
C5_DogImageIffWithinThreshold ==
    \A p \in active :
        mpc[p] = "checked" /\ image_urls[p][idx[p]].kind = "ok"
        => /\ image_hash[p] = image_urls[p][idx[p]].hash
           /\ is_dog[p] <=> NearReferences(image_hash[p]) # {}

\* is_dog_image returned true for a hash at distance exactly 0.3 of the last
\* reference and further from the first
C5_Witness ==
    \E p \in active :
        /\ mpc[p] = "checked"
        /\ image_urls[p][idx[p]].kind = "ok"
        /\ is_dog[p]
        /\ Len(dog_hashes) = 2
        /\ compute_distance(image_hash[p], dog_hashes[1]) > 30
        /\ compute_distance(image_hash[p], dog_hashes[2]) = 30

\* C6 (checked under SpecImage): no exception leaves moderate_post, and a call
\* whose post was fetched returns the labels of the text together with "dog"
\* iff some image of the post, whatever failed before it, is fetched, hashed
\* and matches a reference.
C6_ImageFailureIsNonMatch ==
    \A p \in active :
        /\ mpc[p] # "raised"
        /\ mpc[p] = "done" /\ fetchOk[p]
           => /\ TextLabels(postText[p]) \subseteq labels[p]
              /\ DOG_LABEL \in labels[p]
                   <=> \E k \in 1..Len(postImages[p]) : MatchingImage(postImages[p][k])

\* a call returned "dog" and a text label for a post whose first image failed
C6_Witness ==
    \E p \in active :
        /\ mpc[p] = "done"
        /\ Len(postImages[p]) = 2
        /\ postImages[p][1].kind \in {"unreachable", "corrupt"}
        /\ MatchingImage(postImages[p][2])
        /\ labels[p] = {DOG_LABEL, T_AND_S_LABEL}

\* C8 (checked under SpecConcurrent): each of two calls running at the same
\* time returns the labels it returns when it runs alone.
C8_ConcurrentCallsIndependent ==
    \A p \in active : mpc[p] = "done" => labels[p] = LabelsAlone(p)

====
